---- MODULE Spec2Model ----
(***************************************************************************)
(* Model of the Isolation game agent (game_agent.py: CustomPlayer.get_move,*)
(* minimax, alphabeta) and of the comparison round of heuristic_search.py  *)
(* (play_round_2).                                                         *)
(*                                                                         *)
(* A board is a node of a finite game tree; the evaluator score_fn is a    *)
(* function from boards to scores.  float("inf") is the integer PosInf,    *)
(* larger than every finite score, so comparisons are those of the floats. *)
(***************************************************************************)
EXTENDS Integers, Sequences, FiniteSets

VARIABLES
    game,           \* the board handed to get_move / to the search (a tree node)
    score,          \* self.score: the evaluator, a function on boards
    method,         \* self.method
    iterative,      \* self.iterative
    search_depth,   \* self.search_depth
    legal_moves,    \* the legal_moves argument of get_move
    pc,             \* where get_move is: "idle", "fixed", "iter", "returned", "raised" ("off": not called)
    best_move,      \* get_move's local best_move
    current_depth,  \* get_move's local current_depth
    outcome,        \* what get_move ended with: the move returned or the exception raised
    calls,          \* history: the search calls get_move made, [depth, completed]
    evaluated,      \* history: the evaluator was called during get_move
    clock_read,     \* history: self.time_left() was called during get_move
    clock_low,      \* environment: from now on every clock reading is below the threshold
    res,            \* result of running both search methods on game (search specification)
    round           \* the state of play_round_2 (round specification)

vars == <<game, score, method, iterative, search_depth, legal_moves, pc, best_move,
          current_depth, outcome, calls, evaluated, clock_read, clock_low, res, round>>

boardVars == <<game, score>>
driverVars == <<method, iterative, search_depth, legal_moves, pc, best_move,
                current_depth, outcome, calls, evaluated, clock_read, clock_low>>

----------------------------------------------------------------------------
(* Bounds of the model *)

\* finite evaluator scores are 0..MaxScore
MaxScore == 1
\* deepest search depth tried (fixed search_depth, and the cap on current_depth)
MaxDepth == 4
\* play_round_2: size of the roster, matches per first mover, score of one side
\* in one play_match
MaxAgents == 3
MaxMatches == 2
MaxMatchScore == 2

----------------------------------------------------------------------------
(* Program constants *)

\* float("inf")
PosInf == 1000
NegInf == -PosInf
\* timeout=10. : the default TIMER_THRESHOLD
TIMER_THRESHOLD == 10
\* the no-move sentinel (-1, -1)
NoMove == <<-1, -1>>

Scores == {NegInf} \cup (0..MaxScore) \cup {PosInf}

----------------------------------------------------------------------------
(* The Board capability: a forest of four game trees.  Tree[n] lists, in   *)
(* the order get_legal_moves() returns them, the legal moves of board n    *)
(* with the board each one leads to.                                       *)
(*   board 1  : a spine of depth 4        board 9  : a 2x2 tree            *)
(*   board 16 : no legal move             board 17 : one move, then none   *)

Tree ==
    << << <<<<0, 1>>, 2>>, <<<<1, 2>>, 3>> >>,      \* 1  (root)
       << >>,                                        \* 2
       << <<<<2, 0>>, 4>> >>,                        \* 3
       << <<<<2, 2>>, 5>>, <<<<2, 1>>, 6>> >>,      \* 4
       << >>,                                        \* 5
       << <<<<0, 2>>, 7>>, <<<<0, 0>>, 8>> >>,      \* 6
       << >>,                                        \* 7
       << >>,                                        \* 8
       << <<<<1, 1>>, 10>>, <<<<0, 2>>, 11>> >>,    \* 9  (root)
       << <<<<0, 0>>, 12>>, <<<<2, 1>>, 13>> >>,    \* 10
       << <<<<2, 0>>, 14>>, <<<<2, 2>>, 15>> >>,    \* 11
       << >>, << >>, << >>, << >>,                   \* 12 .. 15
       << >>,                                        \* 16 (root)
       << <<<<1, 0>>, 18>> >>,                       \* 17 (root)
       << >> >>                                      \* 18

Roots == {1, 9, 16, 17}

Subtree(root) ==
    IF root = 1 THEN 1..8
    ELSE IF root = 9 THEN 9..15
    ELSE IF root = 16 THEN {16} ELSE {17, 18}

\* the boards a search from root can apply the evaluator to
EvalBoards(root) == {n \in Subtree(root) : n # root \/ Tree[n] = << >>}

\* game.get_legal_moves()
get_legal_moves(n) == [i \in 1..Len(Tree[n]) |-> Tree[n][i][1]]

\* game.forecast_move(m)
forecast_move(n, m) ==
    LET i == CHOOSE j \in 1..Len(Tree[n]) : Tree[n][j][1] = m
    IN  Tree[n][i][2]

\* a clock that never reads below the threshold during one search call:
\* a call enters each board of the tree at most once
NeverLow == Cardinality(Subtree(game))

\* self.time_left() at the k-th read of a search call whose clock gives budget
\* readings at the threshold and readings below it from then on
time_left(budget, k) ==
    IF k <= budget THEN TIMER_THRESHOLD ELSE TIMER_THRESHOLD - 1

----------------------------------------------------------------------------
(* Python's ordering of (score, move) tuples and max()/min() over a list *)

move_lt(a, b) == a[1] < b[1] \/ (a[1] = b[1] /\ a[2] < b[2])

\* mutant of tuple_lt: scores alone are compared, the first of equal scores wins
tuple_lt_score_only(a, b) == a[1] < b[1]

tuple_lt(a, b) == a[1] < b[1] \/ (a[1] = b[1] /\ move_lt(a[2], b[2]))

RECURSIVE py_max(_, _, _)
py_max(seq, i, best) ==
    IF i > Len(seq) THEN best
    ELSE py_max(seq, i + 1, IF tuple_lt(best, seq[i]) THEN seq[i] ELSE best)

RECURSIVE py_min(_, _, _)
py_min(seq, i, best) ==
    IF i > Len(seq) THEN best
    ELSE py_min(seq, i + 1, IF tuple_lt(seq[i], best) THEN seq[i] ELSE best)

select(children, maximizing_player) ==
    IF maximizing_player THEN py_max(children, 2, children[1])
    ELSE py_min(children, 2, children[1])

----------------------------------------------------------------------------
(* Search results.  A call returns [timeout, score, move] together with    *)
(* clk, the clock reads made so far in the top-level call, evals, the      *)
(* evaluator calls the call made, and trace, every invocation that         *)
(* returned inside it.  timeout = TRUE is `raise Timeout()`.               *)

Raised(clk, evals, trace) ==
    [timeout |-> TRUE, score |-> 0, move |-> NoMove, clk |-> clk, evals |-> evals,
     trace |-> trace]

Returned(fn, n, depth, maximizing_player, s, m, clk, evals, trace) ==
    [timeout |-> FALSE, score |-> s, move |-> m, clk |-> clk, evals |-> evals,
     trace |-> trace \cup {[fn |-> fn, game |-> n, depth |-> depth,
                            maximizing |-> maximizing_player, score |-> s, move |-> m]}]

\* the depth == 1 branch of minimax: score every forecast board
leaf_children(n) ==
    LET lm == get_legal_moves(n)
    IN  [i \in 1..Len(lm) |-> <<score[forecast_move(n, lm[i])], lm[i]>>]

RECURSIVE minimax(_, _, _, _, _)
RECURSIVE minimax_children(_, _, _, _, _, _)

\* the list comprehension of the else branch, from the i-th legal move on
minimax_children(n, depth, maximizing_player, i, acc, budget) ==
    LET lm == get_legal_moves(n)
    IN  IF i > Len(lm) \/ acc.timeout THEN acc
        ELSE LET r == minimax(forecast_move(n, lm[i]), depth - 1, ~maximizing_player,
                              acc.clk, budget)
             IN  minimax_children(n, depth, maximizing_player, i + 1,
                     [timeout |-> r.timeout,
                      children |-> Append(acc.children, <<r.score, lm[i]>>),
                      clk |-> r.clk,
                      evals |-> acc.evals + r.evals,
                      trace |-> acc.trace \cup r.trace],
                     budget)

minimax(n, depth, maximizing_player, clk, budget) ==
    IF time_left(budget, clk + 1) < TIMER_THRESHOLD THEN Raised(clk + 1, 0, {})
    ELSE
    LET lm == get_legal_moves(n)
    IN  IF lm = << >>
        THEN Returned("minimax", n, depth, maximizing_player, score[n], NoMove,
                      clk + 1, 1, {})
        ELSE IF depth = 1
        THEN LET best == select(leaf_children(n), maximizing_player)
             IN  Returned("minimax", n, depth, maximizing_player, best[1], best[2],
                          clk + 1, Len(lm), {})
        ELSE LET c == minimax_children(n, depth, maximizing_player, 1,
                          [timeout |-> FALSE, children |-> << >>, clk |-> clk + 1,
                           evals |-> 0, trace |-> {}], budget)
             IN  IF c.timeout THEN Raised(c.clk, c.evals, c.trace)
                 ELSE LET best == select(c.children, maximizing_player)
                      IN  Returned("minimax", n, depth, maximizing_player, best[1],
                                   best[2], c.clk, c.evals, c.trace)

----------------------------------------------------------------------------
(* alphabeta and its helpers *)

\* mutant of prune: the two bounds are taken for one another
prune_swapped(old_alpha, old_beta, s, maximizing_player) ==
    (maximizing_player /\ old_alpha >= s) \/ (~maximizing_player /\ old_beta <= s)

\* CustomPlayer.__prune__
prune(old_alpha, old_beta, s, maximizing_player) ==
    (maximizing_player /\ old_beta <= s) \/ (~maximizing_player /\ old_alpha >= s)

\* mutant of update_limit: the maximizing layer overwrites beta, the minimizing alpha
update_limit_swapped(old_alpha, old_beta, s, maximizing_player) ==
    IF maximizing_player THEN <<old_alpha, s>> ELSE <<s, old_beta>>

\* CustomPlayer.__update_limit__
update_limit(old_alpha, old_beta, s, maximizing_player) ==
    IF maximizing_player THEN <<s, old_beta>> ELSE <<old_alpha, s>>

\* the test that a child's score is strictly better for the side to move
improves(s, best_score, maximizing_player) ==
    (maximizing_player /\ s > best_score) \/ (~maximizing_player /\ s < best_score)

\* mutant of first_move: the default best move is the sentinel
first_move_sentinel(lm) == NoMove

\* best_move = legal_moves[0], the default of alphabeta
first_move(lm) == lm[1]

RECURSIVE alphabeta(_, _, _, _, _, _, _)
RECURSIVE alphabeta_loop(_, _, _, _, _, _)

\* the for loop over legal_moves, from the i-th move on; st holds the locals
\* alpha, beta, best_score, best_move, and stop (the break)
alphabeta_loop(n, depth, maximizing_player, i, st, budget) ==
    LET lm == get_legal_moves(n)
    IN  IF i > Len(lm) \/ st.timeout \/ st.stop THEN st
        ELSE
        LET r == alphabeta(forecast_move(n, lm[i]), depth - 1, st.alpha, st.beta,
                           ~maximizing_player, st.clk, budget)
            base == [st EXCEPT !.clk = r.clk, !.evals = st.evals + r.evals,
                               !.trace = st.trace \cup r.trace]
            lim == update_limit(st.alpha, st.beta, r.score, maximizing_player)
        IN  IF r.timeout THEN [base EXCEPT !.timeout = TRUE]
            ELSE IF ~improves(r.score, st.best_score, maximizing_player)
            THEN alphabeta_loop(n, depth, maximizing_player, i + 1, base, budget)
            ELSE IF prune(st.alpha, st.beta, r.score, maximizing_player)
            THEN [base EXCEPT !.best_move = lm[i], !.best_score = r.score,
                              !.stop = TRUE]
            ELSE alphabeta_loop(n, depth, maximizing_player, i + 1,
                     [base EXCEPT !.best_move = lm[i], !.best_score = r.score,
                                  !.alpha = lim[1], !.beta = lim[2]],
                     budget)

alphabeta(n, depth, alpha, beta, maximizing_player, clk, budget) ==
    IF time_left(budget, clk + 1) < TIMER_THRESHOLD THEN Raised(clk + 1, 0, {})
    ELSE
    LET lm == get_legal_moves(n)
    IN  IF depth = 0 \/ lm = << >>
        THEN Returned("alphabeta", n, depth, maximizing_player, score[n], NoMove,
                      clk + 1, 1, {})
        ELSE LET st == alphabeta_loop(n, depth, maximizing_player, 1,
                           [timeout |-> FALSE, stop |-> FALSE,
                            alpha |-> alpha, beta |-> beta,
                            best_score |-> IF maximizing_player THEN NegInf ELSE PosInf,
                            best_move |-> first_move(lm),
                            clk |-> clk + 1, evals |-> 0, trace |-> {}],
                           budget)
             IN  IF st.timeout THEN Raised(st.clk, st.evals, st.trace)
                 ELSE Returned("alphabeta", n, depth, maximizing_player, st.best_score,
                               st.best_move, st.clk, st.evals, st.trace)

----------------------------------------------------------------------------
(* Initial values of the variable groups a specification does not use *)

DriverOff ==
    /\ method = "minimax" /\ iterative = FALSE /\ search_depth = 1
    /\ legal_moves = << >> /\ pc = "off" /\ best_move = NoMove /\ current_depth = 0
    /\ outcome = "none" /\ calls = << >> /\ evaluated = FALSE /\ clock_read = FALSE
    /\ clock_low = FALSE

SearchOff == res = [depth |-> 0]

RoundOff == round = [pc |-> "off"]

\* the evaluators: as custom_score does, -inf and +inf are given to decided
\* boards only, where the side to move has no legal move
Evaluators(root) ==
    {f \in [EvalBoards(root) -> Scores] :
        \A n \in EvalBoards(root) : Tree[n] # << >> => f[n] \in 0..MaxScore}

Boards ==
    /\ game \in Roots
    /\ score \in Evaluators(game)

----------------------------------------------------------------------------
(* Search specification: both methods are run on the same board at the     *)
(* same depth, as maximizing player, with a clock that never reads low.    *)

InitSearch == Boards /\ DriverOff /\ RoundOff /\ SearchOff

RunSearch ==
    /\ res.depth = 0
    /\ \E d \in 1..MaxDepth :
          res' = [depth |-> d,
                  mm |-> minimax(game, d, TRUE, 0, NeverLow),
                  ab |-> alphabeta(game, d, NegInf, PosInf, TRUE, 0, NeverLow)]
    /\ UNCHANGED <<boardVars, driverVars, round>>

NextSearch == RunSearch

SpecSearch == InitSearch /\ [][NextSearch]_vars

----------------------------------------------------------------------------
(* Claims about the search methods (specification SpecSearch) *)

Searched == res.depth >= 1

MoveSet(n) == {Tree[n][i][1] : i \in 1..Len(Tree[n])}

\* the score a board searched at depth k backs up for its child c
backed_up(c, k, maximizing_player) ==
    IF k = 1 \/ Tree[c] = << >> THEN score[c]
    ELSE minimax(c, k - 1, maximizing_player, 0, NeverLow).score

\* the (score, move) pairs of the children of an invocation t of minimax
ChildResults(t) ==
    {<<backed_up(forecast_move(t.game, m), t.depth, ~t.maximizing), m>> :
        m \in MoveSet(t.game)}

\* the total order on (score, move): score, then row, then column
PairLeq(a, b) ==
    \/ a[1] < b[1]
    \/ a[1] = b[1] /\ a[2][1] < b[2][1]
    \/ a[1] = b[1] /\ a[2][1] = b[2][1] /\ a[2][2] <= b[2][2]

\* no two sibling moves have equal backed-up scores, at any board searched
NoTies ==
    \A t \in res.mm.trace :
        \A c1, c2 \in ChildResults(t) : c1[1] = c2[1] => c1 = c2

\* C5: with a clock that never reads low and no ties between sibling moves,
\* minimax and alphabeta called at the root as maximizing player select the
\* same move.
C5_SameMove == (Searched /\ NoTies) => res.mm.move = res.ab.move

\* a tie-free search of depth >= 2 in which alphabeta pruned
C5_Witness ==
    /\ Searched /\ NoTies /\ res.depth >= 2
    /\ res.ab.evals < res.mm.evals
    /\ res.mm.move = res.ab.move /\ res.mm.move # NoMove

C7_MinimaxSelects ==
    Searched =>
        \A t \in res.mm.trace :
            Tree[t.game] # << >> =>
                LET mine == <<t.score, t.move>>
                    lm == get_legal_moves(t.game)
                IN  /\ mine \in ChildResults(t)
                    /\ \A c \in ChildResults(t) :
                          IF t.maximizing THEN PairLeq(c, mine) ELSE PairLeq(mine, c)
                    /\ t.depth = 1 => t.score = score[forecast_move(t.game, t.move)]
                    /\ (t.depth = 1 /\ Len(lm) = 1
                            /\ score[forecast_move(t.game, lm[1])] = PosInf)
                          => mine = <<PosInf, lm[1]>>

\* a depth-4 search of the spine with a tie at the maximizing root, broken
\* towards the later, greater move, and a tie at the minimizing board 6,
\* broken towards the later, lesser move
C7_Witness ==
    /\ game = 1 /\ res.depth = 4
    /\ score[2] = backed_up(3, 4, FALSE)
    /\ res.mm.move = <<1, 2>>
    /\ score[7] = score[8]
    /\ \E t \in res.mm.trace :
          t.game = 6 /\ t.depth = 1 /\ ~t.maximizing /\ t.move = <<0, 0>>

\* C9: with a clock that never reads low, the score alphabeta returns at the
\* root (alpha = -inf, beta = +inf, maximizing) equals the score minimax
\* returns at the same depth.
C9_SameScore == Searched => res.ab.score = res.mm.score

\* a depth-4 search of the spine in which board 4 overwrote alpha = 1 with its
\* best score 0, so that board 6 did not prune after board 7 scored 1 and went
\* on to board 8
C9_Witness ==
    /\ game = 1 /\ res.depth = 4
    /\ score[2] = 1 /\ score[5] = 0 /\ score[7] = 1
    /\ \E t \in res.ab.trace : t.game = 8
    /\ res.ab.score = res.mm.score

----------------------------------------------------------------------------
(* CustomPlayer.get_move (specification Spec) *)

Methods == {"minimax", "alphabeta", "negascout"}

\* the scores of the evaluators get_move is run with: get_move never looks at
\* a score, only at the move a search returns
DriverScores == {0, 1}

\* the clocks one search call can meet: the number of readings at the
\* threshold before the first reading below it
Budgets == IF clock_low THEN {0} ELSE 0..NeverLow

\* mutant of supported: every other name falls back to alphabeta
supported_any(m) == TRUE

\* the if / elif chain over self.method; the else branch raises ValueError
supported(m) == m \in {"minimax", "alphabeta"}

\* mutant of entry: the method is validated before the empty list is looked at
entry_method_first(lm, m) ==
    IF ~supported(m) THEN "unsupported"
    ELSE IF lm = << >> THEN "no_moves" ELSE "search"

\* the order of the checks at the head of get_move
entry(lm, m) ==
    IF lm = << >> THEN "no_moves"
    ELSE IF ~supported(m) THEN "unsupported" ELSE "search"

\* mutant of seed_move: the default is the last legal move
seed_move_last(lm) == lm[Len(lm)]

\* best_move = legal_moves[0]
seed_move(lm) == lm[1]

\* search_method(game, depth, maximizing_player=True)
search_method(m, n, depth, budget) ==
    IF m = "minimax" THEN minimax(n, depth, TRUE, 0, budget)
    ELSE alphabeta(n, depth, NegInf, PosInf, TRUE, 0, budget)

\* mutant of after_timeout: what the aborted call left behind is taken
after_timeout_partial(best, r) == r.move

\* except Timeout: pass -- best_move keeps the value it had before the call
after_timeout(best, r) == best

\* current_depth += 1
next_depth(d) == d + 1

\* mutant of loop_continues: the loop stops by itself at a depth ceiling
loop_until_ceiling(d) == d <= 2

\* while True
loop_continues(d) == TRUE

Ended == pc \in {"returned", "raised"}

InitDriver ==
    /\ game \in Roots
    /\ score \in [EvalBoards(game) -> DriverScores]
    /\ method \in Methods
    /\ iterative \in BOOLEAN
    /\ search_depth \in 1..MaxDepth
    /\ iterative => search_depth = 3
    /\ legal_moves \in {get_legal_moves(game), << >>}
    /\ pc = "idle" /\ best_move = NoMove /\ current_depth = 0
    /\ outcome = [exc |-> "None", move |-> NoMove]
    /\ calls = << >> /\ evaluated = FALSE /\ clock_read = FALSE
    /\ clock_low = FALSE
    /\ SearchOff /\ RoundOff

Init == InitDriver

\* get_move up to the try block
Enter ==
    /\ pc = "idle"
    /\ LET e == entry(legal_moves, method)
       IN  /\ best_move' = IF legal_moves = << >> THEN best_move
                         ELSE seed_move(legal_moves)
           /\ pc' = IF e = "no_moves" THEN "returned"
                    ELSE IF e = "unsupported" THEN "raised"
                    ELSE IF iterative THEN "iter" ELSE "fixed"
           /\ outcome' = IF e = "no_moves" THEN [exc |-> "None", move |-> NoMove]
                         ELSE IF e = "unsupported"
                         THEN [exc |-> "ValueError", move |-> NoMove]
                         ELSE outcome
           /\ current_depth' = IF e = "search" /\ iterative THEN 1 ELSE current_depth
    /\ UNCHANGED <<boardVars, method, iterative, search_depth, legal_moves, calls,
                   evaluated, clock_read, clock_low, res, round>>

\* the single call of the non-iterative branch, and the return
SearchFixed ==
    /\ pc = "fixed"
    /\ \E budget \in Budgets :
          LET r == search_method(method, game, search_depth, budget)
              b == IF r.timeout THEN after_timeout(best_move, r) ELSE r.move
          IN  /\ best_move' = b
              /\ outcome' = [exc |-> "None", move |-> b]
              /\ calls' = Append(calls, [depth |-> search_depth,
                                         completed |-> ~r.timeout])
              /\ evaluated' = (evaluated \/ r.evals > 0)
              /\ clock_read' = (clock_read \/ r.clk > 0)
    /\ pc' = "returned"
    /\ UNCHANGED <<boardVars, method, iterative, search_depth, legal_moves,
                   current_depth, clock_low, res, round>>

\* one pass of the while loop: the call at current_depth, then either the
\* increment or, on Timeout, the return
SearchIter ==
    /\ pc = "iter"
    /\ \E budget \in Budgets :
          LET r == search_method(method, game, current_depth, budget)
              b == IF r.timeout THEN after_timeout(best_move, r) ELSE r.move
              d == next_depth(current_depth)
          IN  /\ r.timeout \/ current_depth <= MaxDepth
              /\ best_move' = b
              /\ calls' = Append(calls, [depth |-> current_depth,
                                         completed |-> ~r.timeout])
              /\ evaluated' = (evaluated \/ r.evals > 0)
              /\ clock_read' = (clock_read \/ r.clk > 0)
              /\ IF r.timeout \/ ~loop_continues(d)
                 THEN /\ pc' = "returned"
                      /\ outcome' = [exc |-> "None", move |-> b]
                      /\ current_depth' = IF r.timeout THEN current_depth ELSE d
                 ELSE /\ pc' = "iter"
                      /\ outcome' = outcome
                      /\ current_depth' = d
    /\ UNCHANGED <<boardVars, method, iterative, search_depth, legal_moves,
                   clock_low, res, round>>

\* the environment: from here on the clock reads below the threshold
ClockRunsOut ==
    /\ ~clock_low /\ ~Ended
    /\ clock_low' = TRUE
    /\ UNCHANGED <<boardVars, method, iterative, search_depth, legal_moves, pc,
                   best_move, current_depth, outcome, calls, evaluated, clock_read,
                   res, round>>

Next == Enter \/ SearchFixed \/ SearchIter \/ ClockRunsOut

Spec == Init /\ [][Next]_vars

\* the interpreter runs get_move on: each of its steps is taken when enabled
FairSpec ==
    Spec /\ WF_vars(Enter) /\ WF_vars(SearchFixed) /\ WF_vars(SearchIter)

----------------------------------------------------------------------------
(* Claims about get_move (specifications Spec and FairSpec) *)

NoCallCompleted == \A i \in 1..Len(calls) : ~calls[i].completed

\* the last call was interrupted by Timeout
Interrupted == Len(calls) >= 1 /\ ~calls[Len(calls)].completed

\* the move a complete search of the board at depth d returns
FullSearchMove(d) == search_method(method, game, d, NeverLow).move

\* C1: in iterative mode the search method is called at depths 1, 2, 3, ...
\* in this order, each call but the last having completed, and when Timeout
\* surfaces in the call at depth d >= 2 get_move returns the move the completed
\* call at depth d - 1 returned.
C1_LastCompletedDepth ==
    iterative =>
        /\ \A i \in 1..Len(calls) : calls[i].depth = i
        /\ \A i \in 1..(Len(calls) - 1) : calls[i].completed
        /\ (pc = "returned" /\ Interrupted /\ Len(calls) >= 2)
              => /\ outcome.exc = "None"
                 /\ outcome.move = FullSearchMove(Len(calls) - 1)

\* the call at depth 3 was interrupted after the evaluator had run, the move
\* of depth 2 was returned, and a complete depth-3 search picks another move
C1_Witness ==
    /\ iterative /\ pc = "returned" /\ Len(calls) = 3 /\ Interrupted /\ evaluated
    /\ outcome.move = FullSearchMove(2)
    /\ FullSearchMove(2) # FullSearchMove(3)
    /\ FullSearchMove(2) # legal_moves[1]

\* C2: if the legal-move list is non-empty and every search call aborted
\* (the first read of the clock was low, or the fixed-depth call or the
\* depth-1 call aborted in recursion), get_move returns legal_moves[0] and no
\* exception leaves it.
C2_DefaultOnAbort ==
    (Ended /\ legal_moves # << >> /\ Len(calls) >= 1 /\ NoCallCompleted)
        => /\ pc = "returned"
           /\ outcome = [exc |-> "None", move |-> legal_moves[1]]

\* the fixed-depth call aborted in recursion, after evaluator calls, on a
\* board where a complete search returns another move than the default
C2_Witness ==
    /\ ~iterative /\ pc = "returned" /\ Len(calls) = 1 /\ NoCallCompleted
    /\ evaluated
    /\ outcome.move = legal_moves[1]
    /\ FullSearchMove(search_depth) # legal_moves[1]

\* C3: when the legal-move list is empty get_move returns the sentinel at
\* once, whatever the board and the configuration: no search call, no
\* evaluator call, no clock read.
C3_EmptyListSentinel ==
    (legal_moves = << >> /\ pc # "idle")
        => /\ pc = "returned"
           /\ outcome = [exc |-> "None", move |-> NoMove]
           /\ calls = << >> /\ ~evaluated /\ ~clock_read

\* the empty list given with an unsupported method on a board that has moves
C3_Witness ==
    /\ legal_moves = << >> /\ pc = "returned" /\ method = "negascout"
    /\ Tree[game] # << >> /\ outcome.move = NoMove

\* C4 as stated: with a method that is neither minimax nor alphabeta, for
\* every legal-move list, get_move ends in ValueError before any search call,
\* evaluator call or clock read.
C4_Original ==
    (~supported(method) /\ pc # "idle")
        => /\ pc = "raised" /\ outcome.exc = "ValueError"
           /\ calls = << >> /\ ~evaluated /\ ~clock_read

\* C4 amended: the same for every non-empty legal-move list.
C4_UnsupportedRaises ==
    (method = "negascout" /\ legal_moves # << >> /\ pc # "idle")
        => /\ pc = "raised" /\ outcome.exc = "ValueError"
           /\ calls = << >> /\ ~evaluated /\ ~clock_read

C4_Witness ==
    /\ method = "negascout" /\ legal_moves # << >> /\ pc = "raised"
    /\ outcome.exc = "ValueError" /\ iterative

\* an iterative run that reaches the search loop
IterRun == iterative /\ legal_moves # << >> /\ supported(method)

\* C10: in iterative mode with a non-empty legal-move list get_move returns
\* only after a search entry has read the clock below the threshold (so with a
\* clock that never reads low it never returns), and once the readings stay
\* below the threshold it eventually returns.
C10_ReturnsOnLowClock ==
    /\ []((IterRun /\ pc = "returned") => Interrupted)
    /\ (IterRun /\ clock_low) ~> (pc = "returned")

\* the run returned after two completed depths, the clock having run out
C10_Witness ==
    /\ IterRun /\ pc = "returned" /\ clock_low /\ Len(calls) = 3 /\ Interrupted

----------------------------------------------------------------------------
(* play_round_2 (specification SpecRound).  round holds the arguments      *)
(* (n = len(agents), num_matches), the locals (idx, counts, wins, total,   *)
(* m = the play_match calls made for the current pairing), the value       *)
(* returned or the exception raised, and the history of the calls.         *)

\* what play_match(p1, p2) can return: every game of a match has a winner, so
\* the two scores are not both 0
play_match == {p \in (0..MaxMatchScore) \X (0..MaxMatchScore) : p[1] + p[2] >= 1}

\* itertools.permutations((agent_1.player, agent_2.player)) with the inner
\* range(num_matches): who moves first in the m-th call of a pairing (from 0)
first_mover(m, num_matches) == IF m < num_matches THEN "uut" ELSE "opp"

\* return 100. * wins / total
win_percentage(wins, total) ==
    IF total = 0 THEN [exc |-> "ZeroDivisionError", num |-> 0, den |-> 0]
    ELSE [exc |-> "None", num |-> 100 * wins, den |-> total]

InitRound ==
    /\ game = 16 /\ score = [n \in {16} |-> 0]
    /\ DriverOff /\ SearchOff
    /\ \E n \in 1..MaxAgents, nm \in 0..MaxMatches :
          round = [pc |-> "for", n |-> n, num_matches |-> nm, idx |-> 1, m |-> 0,
                   counts |-> [uut |-> 0, opp |-> 0], wins |-> 0, total |-> 0,
                   ret |-> [exc |-> "None", num |-> 0, den |-> 0],
                   played |-> [j \in 1..(n - 1) |-> [uut |-> 0, opp |-> 0]],
                   uut_sum |-> 0, both_sum |-> 0]

\* for idx, agent_2 in enumerate(agents[:-1]): counts = {...: 0., ...: 0.}
BeginPairing ==
    /\ round.pc = "for" /\ round.idx <= round.n - 1
    /\ round' = [round EXCEPT !.pc = "matches", !.m = 0,
                              !.counts = [uut |-> 0, opp |-> 0]]
    /\ UNCHANGED <<boardVars, driverVars, res>>

\* one pass of the inner loop: play_match(p1, p2) and the three additions
PlayMatch ==
    /\ round.pc = "matches" /\ round.m < 2 * round.num_matches
    /\ \E p \in play_match :
          LET first == first_mover(round.m, round.num_matches)
              uut == IF first = "uut" THEN p[1] ELSE p[2]
              opp == IF first = "uut" THEN p[2] ELSE p[1]
          IN  round' = [round EXCEPT
                          !.m = @ + 1,
                          !.counts = [uut |-> @.uut + uut, opp |-> @.opp + opp],
                          !.total = @ + p[1] + p[2],
                          !.played[round.idx][first] = @ + 1,
                          !.uut_sum = @ + uut,
                          !.both_sum = @ + uut + opp]
    /\ UNCHANGED <<boardVars, driverVars, res>>

\* wins += counts[agent_1.player], and on to the next agent
EndPairing ==
    /\ round.pc = "matches" /\ round.m = 2 * round.num_matches
    /\ round' = [round EXCEPT !.pc = "for", !.idx = @ + 1,
                              !.wins = @ + round.counts.uut]
    /\ UNCHANGED <<boardVars, driverVars, res>>

\* return 100. * wins / total
ReturnRound ==
    /\ round.pc = "for" /\ round.idx > round.n - 1
    /\ round' = [round EXCEPT !.pc = "done",
                              !.ret = win_percentage(round.wins, round.total)]
    /\ UNCHANGED <<boardVars, driverVars, res>>

NextRound == BeginPairing \/ PlayMatch \/ EndPairing \/ ReturnRound

SpecRound == InitRound /\ [][NextRound]_vars

\* C8: play_round_2 plays, for every agent other than the unit under test,
\* exactly num_matches matches with the unit under test moving first and
\* num_matches with the opponent moving first, and returns
\* 100 * (the unit under test's scores) / (both sides' scores), a value
\* between 0 and 100.
C8_WinPercentage ==
    round.pc = "done" =>
        /\ \A j \in 1..(round.n - 1) :
              round.played[j] = [uut |-> round.num_matches, opp |-> round.num_matches]
        /\ round.ret.exc = "None"
        /\ round.ret.den > 0
        /\ round.ret.num * round.both_sum = 100 * round.uut_sum * round.ret.den
        /\ 0 <= round.ret.num /\ round.ret.num <= 100 * round.ret.den

\* C8 restricted to a round in which at least one match is played (a roster
\* of two agents or more and num_matches >= 1)
C8_WhenPlayed ==
    (round.pc = "done" /\ round.n >= 2 /\ round.num_matches >= 1) =>
        /\ \A j \in 1..(round.n - 1) :
              round.played[j] = [uut |-> round.num_matches, opp |-> round.num_matches]
        /\ round.ret.exc = "None"
        /\ round.ret.den > 0
        /\ round.ret.num * round.both_sum = 100 * round.uut_sum * round.ret.den
        /\ 0 <= round.ret.num /\ round.ret.num <= 100 * round.ret.den

====
